---- MODULE Spec2Model ----
(***************************************************************************)
(* Model of tdd-ai-coder's orchestration loop (startTddAiLoop / runLoop),  *)
(* its file watcher callbacks and the stop handle.                         *)
(*                                                                         *)
(* Node.js runs the program on one thread: every action below is the code  *)
(* that runs between two awaits.  A runLoop call that is suspended at an   *)
(* await is a record of `loops` whose pc names the awaited operation.      *)
(***************************************************************************)
EXTENDS Integers, Sequences, FiniteSets, TLC

VARIABLES
  state,          \* the TddAiState object of startTddAiLoop
  loops,          \* the runLoop calls: position and local variables of each
  phase,          \* startTddAiLoop: "init", "looping" (first runLoop), "returned"
  watcherOpen,    \* the chokidar watcher still delivers events
  overrides,      \* alternatives of process.env.TEST_VALIDATION_OVERRIDE
  skipValidation, \* options.skipValidation
  maxAttempts,    \* options.maxAttempts
  blocked,        \* history variable: the test files the operator refused to proceed with
  emitted,        \* the StatusUpdate passed to onUpdate by the last step
  sinceReset,     \* history variable: the statuses emitted since state was last reset
  restart,        \* history variable: what the session was doing when state was last reset
  output,         \* the text handed to parseVitestOutput
  parsed,         \* what parseVitestOutput returned for it
  previousAttempts, \* the previousAttempts handed to buildPrompt
  prompt,         \* what buildPrompt worked out from them
  now,            \* the clock of the debounced watcher, in ticks of 100 ms
  timers,         \* the setTimeout timers that are pending
  timeout,        \* debounce: the timer handle it keeps (NoTimeout: null)
  fileChangeTimestamps, \* startWatcher: the time of the last accepted change of each path
  notified,       \* history variable: the notifications chokidar gave
  delivered,      \* history variable: the calls of onChange
  testRun         \* the runTests call of the current attempt: what it resolves to

\* the variables of the orchestration loop (watcher.ts)
loopVars == <<state, loops, phase, watcherOpen, overrides, skipValidation, maxAttempts, blocked,
              emitted, sinceReset, restart>>

\* the variables of the report parser (parse-output.ts)
parserVars == <<output, parsed>>

\* the variables of the prompt builder (ai-service.ts)
promptVars == <<previousAttempts, prompt>>

\* the variables of the debounced file watcher (startWatcher with debounce)
debounceVars == <<now, timers, timeout, fileChangeTimestamps, notified, delivered>>

\* the variables of the test runner (runTests)
runnerVars == <<testRun>>

\* the variables the orchestration loop does not touch
outsideLoop == <<parserVars, promptVars, debounceVars, runnerVars>>

vars == <<loopVars, outsideLoop>>

----------------------------------------------------------------------------
(* Bounds *)

\* the largest options.maxAttempts a session is given
MaxAttempts == 2
\* runLoop calls of the session: the first one and one per qualifying change
MaxLoops == 2
\* test files of the project
MaxFiles == 2

Loops == 1..MaxLoops

----------------------------------------------------------------------------
(* Paths: a path is the sequence of its dot-separated segments,           *)
(* <<"a", "test", "ts">> is a.test.ts                                      *)

\* the names of the test files; "[id]" is a name of the kind dynamic routes have
FileNames == <<"a", "[id]", "c", "e">>

NoPath == <<>>

TestPath(i) == <<FileNames[i], "test", "ts">>

TestPaths == {TestPath(i) : i \in 1..MaxFiles}

\* IsTestFile that takes every .js or .ts file
IsTestFile_AnyScript(p) == Len(p) >= 2 /\ p[Len(p)] \in {"js", "ts"}

\* changedFile.endsWith('.test.js') || changedFile.endsWith('.test.ts')
IsTestFile(p) ==
  /\ Len(p) >= 3
  /\ p[Len(p) - 1] = "test"
  /\ p[Len(p)] \in {"js", "ts"}

\* str.replace('.' + seg + '.', '.'): drops the first inner segment seg
RemoveSegment(p, seg) ==
  LET hits == {i \in 2..(Len(p) - 1) : p[i] = seg}
  IN IF hits = {} THEN p
     ELSE LET i == CHOOSE j \in hits : \A k \in hits : j <= k
          IN SubSeq(p, 1, i - 1) \o SubSeq(p, i + 1, Len(p))

\* testFilePath.replace('.test.', '.').replace('.spec.', '.')
ImplementationPath(p) == RemoveSegment(RemoveSegment(p, "test"), "spec")

ImplPaths == {ImplementationPath(p) : p \in TestPaths}

\* the files chokidar watches: the test files and the derived implementation files
WatchedPaths == TestPaths \cup ImplPaths

----------------------------------------------------------------------------
(* Test reports *)

\* the one test of test file i, passing or failing; the failing test of the
\* first file carries an error text, the others none
TestCase(i, ok) ==
  [name |-> FileNames[i], success |-> ok,
   error |-> IF ~ok /\ i = 1 THEN "boom" ELSE ""]

\* the result of test file i in a report
FileResult(i, ok) == [file |-> TestPath(i), tests |-> <<TestCase(i, ok)>>]

\* file.tests.some(test => !test.success)
HasFailingTest(file) == \E i \in 1..Len(file.tests) : ~file.tests[i].success

RECURSIVE CountWhere(_, _)
CountWhere(tests, flag) ==
  IF tests = <<>> THEN 0
  ELSE (IF Head(tests).success = flag THEN 1 ELSE 0) + CountWhere(Tail(tests), flag)

RECURSIVE SumOver(_, _)
SumOver(files, flag) ==
  IF files = <<>> THEN 0
  ELSE CountWhere(Head(files).tests, flag) + SumOver(Tail(files), flag)

\* the file lists of the reports that are enumerated: the first n test
\* files in their listed order; in a list of several files the last one fails
FileLists ==
  {fl \in UNION {[1..n -> {FileResult(i, ok) : i \in 1..MaxFiles, ok \in BOOLEAN}] :
                   n \in 1..MaxFiles} :
     /\ \A i \in 1..Len(fl) : fl[i].file = TestPath(i)
     /\ Len(fl) > 1 => HasFailingTest(fl[Len(fl)])}

\* a well-formed TestResults value: the summary counts the listed tests
Report(fl) ==
  [files |-> fl,
   summary |-> [total |-> SumOver(fl, TRUE) + SumOver(fl, FALSE),
                passed |-> SumOver(fl, TRUE),
                failed |-> SumOver(fl, FALSE)]]

Reports == {Report(fl) : fl \in FileLists}

NoReport == [files |-> <<>>, summary |-> [total |-> 0, passed |-> 0, failed |-> 0]]

\* what runTests can resolve to: an error result without results, or a
\* report with the exit indicator of the test command
TestResultValues ==
  {[success |-> FALSE, hasResults |-> FALSE, results |-> NoReport]}
  \cup {[success |-> s, hasResults |-> TRUE, results |-> r] : s \in BOOLEAN, r \in Reports}

RECURSIVE SelectSeqOf(_, _)
SelectSeqOf(s, keep) ==
  IF s = <<>> THEN <<>>
  ELSE (IF Head(s) \in keep THEN <<Head(s)>> ELSE <<>>) \o SelectSeqOf(Tail(s), keep)

\* testResults.results.files.filter(file => file.tests.some(...))
FilesWithFailingTests(files) ==
  SelectSeqOf(files, {files[i] : i \in {j \in 1..Len(files) : HasFailingTest(files[j])}})

\* the failureDetails entries of one file: name and test.error || 'Unknown error'
RECURSIVE FailureDetailsOfTests(_)
FailureDetailsOfTests(tests) ==
  IF tests = <<>> THEN <<>>
  ELSE (IF Head(tests).success THEN <<>>
        ELSE <<[name |-> Head(tests).name,
                error |-> IF Head(tests).error = "" THEN "Unknown error"
                          ELSE Head(tests).error]>>)
       \o FailureDetailsOfTests(Tail(tests))

\* filesWithFailingTests.forEach(file => file.tests.forEach(...push...))
RECURSIVE FailureDetails(_)
FailureDetails(files) ==
  IF files = <<>> THEN <<>>
  ELSE FailureDetailsOfTests(Head(files).tests) \o FailureDetails(Tail(files))

\* the list the per-file for loop iterates
FilesToProcess(files) ==
  IF Len(FilesWithFailingTests(files)) > 0 THEN FilesWithFailingTests(files) ELSE files

----------------------------------------------------------------------------
(* Values *)

\* what the generation backend or an implementation file may hold as code:
\* "" is no code, " " is code that is blank after trim()
Codes == {"", " ", "code1"}

\* !code || code.trim() === ''
IsBlank(code) == code \in {"", " "}

\* HasNoCode that lets every code through
HasNoCode_Never(code) == FALSE

\* !generated.code
HasNoCode(code) == code = ""

\* what generateImplementation can resolve to
GenerateResults ==
  {[success |-> FALSE, code |-> ""]} \cup {[success |-> TRUE, code |-> c] : c \in Codes}

\* the outcomes of validateTests: no issue, warnings only, at least one
\* error-severity issue, or an exception
ValidationOutcomes == {"none", "warnings", "errors", "throws"}

\* performStaticAnalysis(testCode): no issue or issues of severity warning
\* (it raises no other severity), or an exception
StaticAnalyses == {"none", "warnings", "throws"}

\* the analysis backend of validateTests: no client, a failing request, or
\* an analysis with no issue, warnings only, or at least one error
Backends == {"missing", "fails", "none", "warnings", "errors"}

\* the highest severity among the issues of two lists
Worst(a, b) ==
  IF "errors" \in {a, b} THEN "errors" ELSE IF "warnings" \in {a, b} THEN "warnings" ELSE "none"

\* ValidateTests with a failed analysis reported as an error-severity issue
ValidateTests_FailsClosed(static, backend) ==
  IF static = "throws" THEN "throws"
  ELSE IF backend \in {"missing", "fails"} THEN "errors"
  ELSE Worst(static, backend)

\* validateTests(testFilePath, testCode, fileResult): the severities of the
\* issues it returns, or "throws"; without a client or with a failing
\* analysis the static issues alone
ValidateTests(static, backend) ==
  IF static = "throws" THEN "throws"
  ELSE IF backend \in {"missing", "fails"} THEN static
  ELSE Worst(static, backend)

\* HasErrors that counts warnings too
HasErrors_OrWarnings(v) == v \in {"warnings", "errors"}

\* validationResult.issues.some(issue => issue.severity === 'error')
HasErrors(v) == v = "errors"

\* history variable of a runLoop call: how the gate went for the file the
\* call is processing (did issue detection work, the issues, the answer)
NotEvaluated == [detection |-> "", issues |-> "", decision |-> ""]

Evaluated(static, backend, v) ==
  [detection |-> IF static = "throws" THEN "threw"
                 ELSE IF backend \in {"missing", "fails"} THEN "failed" ELSE "ok",
   issues |-> IF v = "throws" THEN "" ELSE v,
   decision |-> ""]

Update(status, attempt, file) ==
  [status |-> status, attempt |-> attempt, file |-> file, message |-> ""]

\* onUpdate({ status: 'error', message, file })
ErrorUpdate(message, file) == [Update("error", 0, file) EXCEPT !.message = message]

NoUpdate == Update("none", 0, NoPath)

NothingEmitted == [running_tests |-> 0, success |-> 0, max_attempts_reached |-> 0, seen |-> {}]

\* sinceReset after one more call of onUpdate
Tally(sr, upd) ==
  IF upd = NoUpdate THEN sr
  ELSE [running_tests |-> sr.running_tests + (IF upd.status = "running_tests" THEN 1 ELSE 0),
        success |-> sr.success + (IF upd.status = "success" THEN 1 ELSE 0),
        max_attempts_reached |->
          sr.max_attempts_reached + (IF upd.status = "max_attempts_reached" THEN 1 ELSE 0),
        seen |-> sr.seen \cup {upd.status}]

NoAttempt ==
  [attempt |-> 0, implementation |-> "", fileUpdated |-> NoPath, success |-> "undefined",
   testResults |-> [totalTests |-> 0, passingTests |-> 0, failingTests |-> 0,
                    failureDetails |-> <<>>]]

\* a runLoop call that has not been made, and the initial value of its locals
IdleLoop ==
  [pc |-> "idle", currentAttempt |-> NoAttempt, todo |-> <<>>, generated |-> "",
   gate |-> NotEvaluated]

\* a runLoop call that has returned
DoneLoop == [IdleLoop EXCEPT !.pc = "done"]

\* the runLoop calls suspended at an await
InFlight == {l \in Loops : loops[l].pc \notin {"idle", "done"}}

\* const currentAttempt = { attempt: state.attempts, implementation: '', testResults: {...} }
NewAttempt(s, tr) ==
  [attempt |-> s.attempts, implementation |-> "", fileUpdated |-> NoPath,
   success |-> "undefined",
   testResults |-> [totalTests |-> tr.results.summary.total,
                    passingTests |-> tr.results.summary.passed,
                    failingTests |-> tr.results.summary.failed,
                    failureDetails |-> <<>>]]

\* An element of state.history is a reference to an attempt object.  ref is
\* the runLoop call whose currentAttempt variable is that same object (0: none),
\* the other fields are the object's fields.
Entry(a, l) ==
  [attempt |-> a.attempt, implementation |-> a.implementation,
   fileUpdated |-> a.fileUpdated, success |-> a.success,
   testResults |-> a.testResults, ref |-> l]

\* the fields of the object a history element refers to
Fields(e) ==
  [attempt |-> e.attempt, implementation |-> e.implementation,
   fileUpdated |-> e.fileUpdated, success |-> e.success,
   testResults |-> e.testResults]

\* an assignment to a field of loop l's currentAttempt shows in every
\* element of history that is this object
Mutate(hist, l, a) ==
  [i \in DOMAIN hist |-> IF hist[i].ref = l THEN Entry(a, l) ELSE hist[i]]

\* loop l's currentAttempt goes out of scope
Unref(hist, l) ==
  [i \in DOMAIN hist |-> IF hist[i].ref = l THEN [hist[i] EXCEPT !.ref = 0] ELSE hist[i]]

\* state.history.push(currentAttempt)
Push(hist, l, a) == Append(Mutate(hist, l, a), Entry(a, l))

\* a segment of a path used as a regular expression, against a segment of
\* text: "[id]" is a character class, it matches the one character i or d
SegMatches(o, t) == IF o = "[id]" THEN t \in {"i", "d"} ELSE o = t

\* new RegExp(overridePattern).test(testFilePath): the pattern is the
\* overridden paths joined with '|', each used as a regular expression and
\* tested unanchored
Contains(p, o) ==
  \E i \in 0..(Len(p) - Len(o)) : \A k \in 1..Len(o) : SegMatches(o[k], p[i + k])

IsValidationOverridden(p) == \E o \in overrides : Contains(p, o)

----------------------------------------------------------------------------
(* The session *)

\* no text has been handed to the parser
NoOutput == [text |-> "none"]

\* parseVitestOutput has not returned
NotParsed == [returned |-> FALSE]

\* the parser is not in use
ParserAtRest ==
  /\ output = NoOutput
  /\ parsed = NotParsed

\* buildPrompt has not worked on its previousAttempts
NotBuilt == [built |-> FALSE]

\* the prompt builder is not in use
PromptAtRest ==
  /\ previousAttempts = <<>>
  /\ prompt = NotBuilt

\* let timeout = null
NoTimeout == [at |-> 0, changedFile |-> <<>>, cause |-> 0]

\* the debounced watcher as startWatcher leaves it: no timer, no timestamp
\* (the paths are added to fileChangeTimestamps as their changes are accepted)
DebounceAtStart ==
  /\ now = 0
  /\ timers = {}
  /\ timeout = NoTimeout
  /\ fileChangeTimestamps = <<>>
  /\ notified = <<>>
  /\ delivered = <<>>

\* no runTests call has settled
NoTestRun == [attempt |-> 0, success |-> FALSE, hasResults |-> FALSE]

\* the test runner is not in use
RunnerAtRest == testRun = NoTestRun

\* the parts of the program outside the orchestration loop are not in use
OutsideLoopAtRest == ParserAtRest /\ PromptAtRest /\ DebounceAtStart /\ RunnerAtRest

\* the state of startTddAiLoop once the watcher is ready, with options.skipValidation = skip
LoopAtStart(skip) ==
  /\ state = [running |-> TRUE, attempts |-> 0, allTestsPassing |-> FALSE, history |-> <<>>]
  /\ loops = [l \in Loops |-> IdleLoop]
  /\ phase = "init"
  /\ watcherOpen = TRUE
  /\ overrides = {}
  /\ skipValidation = skip
  /\ maxAttempts \in 1..MaxAttempts
  /\ blocked = {}
  /\ emitted = NoUpdate
  /\ sinceReset = NothingEmitted
  /\ restart = "none"

\* a session: the loop at its start, nothing else in use
Start(skip) == LoopAtStart(skip) /\ OutsideLoopAtRest

\* WhileCond with <= for <
WhileCond_OffByOne(s) == s.running /\ ~s.allTestsPassing /\ s.attempts <= maxAttempts

\* WhileCond without the test of allTestsPassing
WhileCond_IgnoresPassing(s) == s.running /\ s.attempts < maxAttempts

\* WhileCond without the test of running
WhileCond_IgnoresRunning(s) == ~s.allTestsPassing /\ s.attempts < maxAttempts

\* while (state.running && !state.allTestsPassing && state.attempts < maxAttempts)
WhileCond(s) == s.running /\ ~s.allTestsPassing /\ s.attempts < maxAttempts

\* if (state.attempts >= maxAttempts && !state.allTestsPassing)
MaxAttemptsCond(s) == s.attempts >= maxAttempts /\ ~s.allTestsPassing

\* ResetState without state.history = []
ResetState_KeepsHistory(s) == [s EXCEPT !.attempts = 0, !.allTestsPassing = FALSE]

\* ResetState without state.allTestsPassing = false
ResetState_KeepsPassing(s) == [s EXCEPT !.attempts = 0, !.history = <<>>]

\* state.attempts = 0; state.allTestsPassing = false; state.history = []
ResetState(s) == [s EXCEPT !.attempts = 0, !.allTestsPassing = FALSE, !.history = <<>>]

\* startTddAiLoop resumes when its first runLoop call (call 1) returns
Return(l, ph) == IF l = 1 /\ ph = "looping" THEN "returned" ELSE ph

\* onUpdate(upd), after the updates tallied in sr
Emit(sr, upd) ==
  /\ emitted' = upd
  /\ sinceReset' = Tally(sr, upd)

\* runLoop from the test of its while condition to its next await, for the
\* call l, with s the session state, sr the statuses emitted so far and ph
\* the phase of startTddAiLoop
LoopHead(l, s, sr, ph) ==
  IF WhileCond(s)
  THEN /\ state' = [s EXCEPT !.attempts = @ + 1, !.history = Unref(@, l)]
       /\ loops' = [loops EXCEPT ![l] = [IdleLoop EXCEPT !.pc = "runTests"]]
       /\ Emit(sr, Update("running_tests", s.attempts + 1, NoPath))
       /\ phase' = ph
  ELSE /\ state' = [s EXCEPT !.history = Unref(@, l)]
       /\ loops' = [loops EXCEPT ![l] = DoneLoop]
       /\ Emit(sr, IF MaxAttemptsCond(s)
                   THEN Update("max_attempts_reached", 0, NoPath) ELSE NoUpdate)
       /\ phase' = Return(l, ph)

\* startTddAiLoop: the watcher is ready, await runLoop()
StartLoop ==
  /\ phase = "init"
  /\ LoopHead(1, state, sinceReset, "looping")
  /\ UNCHANGED <<watcherOpen, overrides, skipValidation, maxAttempts, outsideLoop, blocked, restart>>

\* the per-file for loop moves on: the next file, or the settling delay
NextFile(lp) ==
  [lp EXCEPT !.pc = IF Tail(lp.todo) = <<>> THEN "settleDelay" ELSE "readTest",
             !.todo = Tail(lp.todo),
             !.generated = "",
             !.gate = NotEvaluated]

\* Continue leaving the per-file loop (break)
Continue_Breaks(l, upd) ==
  /\ loops' = [loops EXCEPT ![l] = [NextFile(loops[l]) EXCEPT !.pc = "settleDelay",
                                                               !.todo = <<>>]]
  /\ Emit(sinceReset, upd)

\* Continue going back to the first step of the same file
Continue_SameFile(l, upd) ==
  /\ loops' = [loops EXCEPT ![l] = [NextFile(loops[l]) EXCEPT !.pc = "readTest",
                                                               !.todo = loops[l].todo]]
  /\ Emit(sinceReset, upd)

\* a per-file step ends with `continue` after onUpdate(upd)
Continue(l, upd) ==
  /\ loops' = [loops EXCEPT ![l] = NextFile(loops[l])]
  /\ Emit(sinceReset, upd)

\* await runTests({ projectPath }) resolves to tr
RunTestsDone(l, tr) ==
  /\ loops[l].pc = "runTests"
  /\ LET cur == NewAttempt(state, tr)
         files == FilesToProcess(tr.results.files)
         withDetails == [cur EXCEPT !.testResults.failureDetails =
                           FailureDetails(FilesWithFailingTests(tr.results.files))]
     IN IF tr.success
        THEN /\ state' = [state EXCEPT
                   !.allTestsPassing = TRUE,
                   !.history = Append(@, Entry([cur EXCEPT !.success = "true"], 0))]
             /\ loops' = [loops EXCEPT ![l] = DoneLoop]
             /\ Emit(sinceReset, Update("success", 0, NoPath))
             /\ phase' = Return(l, phase)
        ELSE IF ~tr.hasResults
        THEN /\ loops' = [loops EXCEPT ![l] = [@ EXCEPT !.pc = "retryDelay",
                                                        !.currentAttempt = cur]]
             /\ Emit(sinceReset, ErrorUpdate("No test results available", NoPath))
             /\ UNCHANGED <<state, phase>>
        ELSE /\ loops' = [loops EXCEPT ![l] =
                  [@ EXCEPT !.pc = IF files = <<>> THEN "settleDelay" ELSE "readTest",
                            !.currentAttempt = withDetails,
                            !.todo = files]]
             /\ Emit(sinceReset, NoUpdate)
             /\ UNCHANGED <<state, phase>>
  /\ UNCHANGED <<watcherOpen, overrides, skipValidation, maxAttempts, outsideLoop, blocked, restart>>

\* await new Promise(resolve => setTimeout(resolve, 1000)); continue
RetryDelayDone(l) ==
  /\ loops[l].pc = "retryDelay"
  /\ LoopHead(l, state, sinceReset, phase)
  /\ UNCHANGED <<watcherOpen, overrides, skipValidation, maxAttempts, outsideLoop, blocked, restart>>

\* await new Promise(resolve => setTimeout(resolve, 2000)), end of the while body
SettleDelayDone(l) ==
  /\ loops[l].pc = "settleDelay"
  /\ LoopHead(l, state, sinceReset, phase)
  /\ UNCHANGED <<watcherOpen, overrides, skipValidation, maxAttempts, outsideLoop, blocked, restart>>

\* testCode = await fs.readFile(testFilePath) resolves (ok) or rejects
ReadTestDone(l, ok) ==
  /\ loops[l].pc = "readTest"
  /\ LET testFilePath == Head(loops[l].todo).file
     IN IF ~ok
        THEN Continue(l, ErrorUpdate("Error reading test file", NoPath))
        ELSE IF ~skipValidation /\ ~IsValidationOverridden(testFilePath)
        THEN /\ loops' = [loops EXCEPT ![l].pc = "validate"]
             /\ Emit(sinceReset, Update("validation_waiting", state.attempts, testFilePath))
        ELSE /\ loops' = [loops EXCEPT ![l].pc = "readImpl"]
             /\ Emit(sinceReset, NoUpdate)
  /\ UNCHANGED <<state, phase, watcherOpen, overrides, skipValidation, maxAttempts, outsideLoop, blocked, restart>>

\* await validateTests(testFilePath, testCode, fileResult) settles, given
\* what the static analysis and the analysis backend do
ValidateDone(l, static, backend) ==
  /\ loops[l].pc = "validate"
  /\ LET testFilePath == Head(loops[l].todo).file
         v == ValidateTests(static, backend)
     IN /\ loops' = [loops EXCEPT
               ![l].pc = IF v # "throws" /\ HasErrors(v) THEN "decision" ELSE "readImpl",
               ![l].gate = Evaluated(static, backend, v)]
        /\ Emit(sinceReset, IF v \in {"warnings", "errors"}
                            THEN Update("validation_warning", state.attempts, testFilePath)
                            ELSE NoUpdate)
  /\ UNCHANGED <<state, phase, watcherOpen, overrides, skipValidation, maxAttempts, outsideLoop, blocked,
                 restart>>

\* OverridesAfter that sets the override whatever the answer
OverridesAfter_Always(shouldOverride, testFilePath) == overrides \cup {testFilePath}

\* if (shouldOverride) setValidationOverride(testFilePath)
OverridesAfter(shouldOverride, testFilePath) ==
  IF shouldOverride THEN overrides \cup {testFilePath} ELSE overrides

\* await onValidationIssue(validationStatus, testFilePath) resolves to shouldOverride
DecisionDone(l, shouldOverride) ==
  /\ loops[l].pc = "decision"
  /\ LET testFilePath == Head(loops[l].todo).file
     IN /\ overrides' = OverridesAfter(shouldOverride, testFilePath)
        /\ IF shouldOverride
           THEN /\ loops' = [loops EXCEPT ![l].pc = "readImpl",
                                          ![l].gate.decision = "Overridden"]
                /\ Emit(sinceReset, NoUpdate)
                /\ UNCHANGED blocked
           ELSE /\ Continue(l, ErrorUpdate("Test validation failed", testFilePath))
                /\ blocked' = blocked \cup {testFilePath}
  /\ UNCHANGED <<state, phase, watcherOpen, skipValidation, maxAttempts, outsideLoop, restart>>

\* state.history.filter(attempt => attempt.fileUpdated === implementationPath)
\*   .map(attempt => ({ attempt, implementation, testResults }))
PreviousAttemptsForFile(hist, implementationPath) ==
  LET keep == {i \in 1..Len(hist) : hist[i].fileUpdated = implementationPath}
      Pick(i) == [attempt |-> hist[i].attempt, implementation |-> hist[i].implementation,
                  testResults |-> hist[i].testResults]
      RECURSIVE From(_)
      From(i) == IF i > Len(hist) THEN <<>>
                 ELSE (IF i \in keep THEN <<Pick(i)>> ELSE <<>>) \o From(i + 1)
  IN From(1)

\* currentImplementation = await fs.readFile(implementationPath) settles, with
\* '' when the read fails.  The content read is what the file holds at that
\* moment (the operator edits it too) and is only handed to
\* generateImplementation: it is drawn where it is used, in GenerateDone.
ReadImplDone(l) ==
  /\ loops[l].pc = "readImpl"
  /\ LET implementationPath == ImplementationPath(Head(loops[l].todo).file)
     IN /\ loops' = [loops EXCEPT ![l].pc = "generate"]
        /\ Emit(sinceReset, Update("generating_code", state.attempts, implementationPath))
  /\ UNCHANGED <<state, phase, watcherOpen, overrides, skipValidation, maxAttempts, outsideLoop, blocked, restart>>

\* generateImplementation for a file result: without a failing test it
\* answers the current implementation, otherwise whatever the backend gives
GenerateAnswers(fileResult, currentImplementation) ==
  IF HasFailingTest(fileResult)
  THEN GenerateResults
  ELSE {[success |-> FALSE, code |-> ""], [success |-> TRUE, code |-> currentImplementation]}

\* await generateImplementation({..., currentImplementation, ...}) resolves to generated
GenerateDone(l, currentImplementation, generated) ==
  /\ loops[l].pc = "generate"
  /\ generated \in GenerateAnswers(Head(loops[l].todo), currentImplementation)
  /\ IF ~generated.success
     THEN Continue(l, ErrorUpdate("Error generating implementation", NoPath))
     ELSE IF HasNoCode(generated.code)
     THEN Continue(l, ErrorUpdate("AI returned empty implementation", NoPath))
     ELSE /\ loops' = [loops EXCEPT ![l].pc = "apply", ![l].generated = generated.code]
          /\ Emit(sinceReset, NoUpdate)
  /\ UNCHANGED <<state, phase, watcherOpen, overrides, skipValidation, maxAttempts, outsideLoop, blocked, restart>>

\* await applyGeneratedCode({ code, implementationPath }) resolves to applied:
\* false for blank code (nothing is written) or a failed mkdir / writeFile
ApplyDone(l, applied) ==
  /\ loops[l].pc = "apply"
  /\ LET implementationPath == ImplementationPath(Head(loops[l].todo).file)
         code == loops[l].generated
         cur == [loops[l].currentAttempt EXCEPT !.implementation = code,
                                               !.fileUpdated = implementationPath,
                                               !.success = "false"]
     IN IF IsBlank(code) \/ ~applied
        THEN /\ ~applied
             /\ Continue(l, ErrorUpdate("Error applying generated code", NoPath))
             /\ UNCHANGED state
        ELSE /\ state' = [state EXCEPT !.history = Push(@, l, cur)]
             /\ loops' = [loops EXCEPT ![l] =
                  NextFile([loops[l] EXCEPT !.currentAttempt = cur])]
             /\ Emit(sinceReset,
                     Update("implementation_updated", state.attempts, implementationPath))
  /\ UNCHANGED <<phase, watcherOpen, overrides, skipValidation, maxAttempts, outsideLoop, blocked, restart>>

\* what a qualifying change event interrupts: a runLoop call suspended at an
\* await, or a session at rest after one of its terminal statuses
Interrupted ==
  IF InFlight # {} THEN "in_flight"
  ELSE IF sinceReset.max_attempts_reached > 0 THEN "max_attempts_reached"
  ELSE IF sinceReset.success > 0 THEN "success"
  ELSE "returned"

\* the runLoop calls not made yet
FreeLoops == {l \in Loops : loops[l].pc = "idle"}

\* onChange: async (changedFile) => { ... }, up to the first await of the
\* runLoop call it makes
ResetAndRun(changedFile) ==
  IF IsTestFile(changedFile)
  THEN /\ FreeLoops # {}
       /\ LET l == CHOOSE f \in FreeLoops : \A g \in FreeLoops : f <= g
          IN LoopHead(l, ResetState(state), NothingEmitted, phase)
       /\ restart' = Interrupted
  ELSE /\ Emit(sinceReset, NoUpdate)
       /\ UNCHANGED <<state, loops, phase, restart>>

\* watcher.on('change' | 'add') -> onChange(changedFile)
OnChange(changedFile) ==
  /\ phase # "init"
  /\ watcherOpen
  /\ ResetAndRun(changedFile)
  /\ UNCHANGED <<watcherOpen, overrides, skipValidation, maxAttempts, outsideLoop, blocked>>

\* the stop handle: state.running = false; await stopWatcher(watcher)
Stop ==
  /\ phase = "returned"
  /\ state' = [state EXCEPT !.running = FALSE]
  /\ watcherOpen' = FALSE
  /\ Emit(sinceReset, NoUpdate)
  /\ UNCHANGED <<loops, phase, overrides, skipValidation, maxAttempts, outsideLoop, blocked, restart>>

\* the steps of a session without those of the validation gate
NextSkip ==
  \/ StartLoop
  \/ \E l \in Loops, tr \in TestResultValues : RunTestsDone(l, tr)
  \/ \E l \in Loops : RetryDelayDone(l)
  \/ \E l \in Loops : SettleDelayDone(l)
  \/ \E l \in Loops, ok \in BOOLEAN : ReadTestDone(l, ok)
  \/ \E l \in Loops : ReadImplDone(l)
  \/ \E l \in Loops, currentImplementation \in Codes, generated \in GenerateResults :
        GenerateDone(l, currentImplementation, generated)
  \/ \E l \in Loops, applied \in BOOLEAN : ApplyDone(l, applied)
  \/ \E changedFile \in WatchedPaths : OnChange(changedFile)
  \/ Stop

Next ==
  \/ NextSkip
  \/ \E l \in Loops, static \in StaticAnalyses, backend \in Backends :
        ValidateDone(l, static, backend)
  \/ \E l \in Loops, shouldOverride \in BOOLEAN : DecisionDone(l, shouldOverride)

Init == Start(FALSE)

InitSkip == Start(TRUE)

\* the session with the validation gate
Spec == Init /\ [][Next]_vars

\* the session with options.skipValidation set
SpecSkip == InitSkip /\ [][NextSkip]_vars

\* every collaborator call of a runLoop call returns: the test run, the
\* delays, the file reads, the generation and the apply each settle
CallsReturn(l) ==
  /\ WF_vars(\E tr \in TestResultValues : RunTestsDone(l, tr))
  /\ WF_vars(RetryDelayDone(l))
  /\ WF_vars(SettleDelayDone(l))
  /\ WF_vars(\E ok \in BOOLEAN : ReadTestDone(l, ok))
  /\ WF_vars(ReadImplDone(l))
  /\ WF_vars(\E currentImplementation \in Codes, generated \in GenerateResults :
               GenerateDone(l, currentImplementation, generated))
  /\ WF_vars(\E applied \in BOOLEAN : ApplyDone(l, applied))

\* the session with options.skipValidation set, in which startTddAiLoop
\* goes on to its first runLoop call and every collaborator call returns
SpecSkipFair == SpecSkip /\ WF_vars(StartLoop) /\ \A l \in Loops : CallsReturn(l)

\* the steps of a session with the validation gate in which no test file
\* changes: the watcher reports the implementation files only
NextGate ==
  \/ StartLoop
  \/ \E l \in Loops, tr \in TestResultValues : RunTestsDone(l, tr)
  \/ \E l \in Loops : RetryDelayDone(l)
  \/ \E l \in Loops : SettleDelayDone(l)
  \/ \E l \in Loops, ok \in BOOLEAN : ReadTestDone(l, ok)
  \/ \E l \in Loops, static \in StaticAnalyses, backend \in Backends :
        ValidateDone(l, static, backend)
  \/ \E l \in Loops, shouldOverride \in BOOLEAN : DecisionDone(l, shouldOverride)
  \/ \E l \in Loops : ReadImplDone(l)
  \/ \E l \in Loops, currentImplementation \in Codes, generated \in GenerateResults :
        GenerateDone(l, currentImplementation, generated)
  \/ \E l \in Loops, applied \in BOOLEAN : ApplyDone(l, applied)
  \/ \E changedFile \in ImplPaths : OnChange(changedFile)
  \/ Stop

SpecGate == Init /\ [][NextGate]_vars

----------------------------------------------------------------------------
(* The report parser: parseVitestOutput and its helpers (parse-output.ts).  *)
(* The text handed to the parser is a record: text says what kind of text   *)
(* it is, data is the value JSON.parse gives for it (when it gives one).    *)

\* the tests the runner's output lists for one file
MaxTests == 2

\* the status words of a test in the runner's output
Statuses == {"passed", "failed", "pass", "skipped"}

RunnerTests == [name : {"t"}, status : Statuses]

RunnerTestLists == UNION {[1..n -> RunnerTests] : n \in 0..MaxTests}

\* an entry of a per-file list in the runner's output: null, or an object
\* with the file's path, its tests and the file-level flag of its shape
\* (failures / failed: "absent", "0", "1"; suite status: "passed", "failed")
NullItem == [isNull |-> TRUE, name |-> "a.test.ts", flag |-> "absent", tests |-> <<>>]

FileItems(flags) ==
  [isNull : {FALSE}, name : {"a.test.ts"}, flag : flags, tests : RunnerTestLists]

\* one more file, listed after the first
SecondItem(flag) ==
  [isNull |-> FALSE, name |-> "b.test.ts", flag |-> flag,
   tests |-> <<[name |-> "t", status |-> "failed"]>>]

\* the per-file lists that are enumerated for a shape: none, one entry, or
\* an entry followed by the second file
ItemLists(flags, second) ==
  {<<>>, <<NullItem>>}
  \cup {<<f>> : f \in FileItems(flags)}
  \cup {<<f, SecondItem(second)>> : f \in {g \in FileItems(flags) : Len(g.tests) = 1}}

\* an entry of the flat results array
RunnerResults == [file : {"a.test.ts", "b.test.ts"}, name : {"t"}, status : Statuses]

RunnerResultLists == UNION {[1..n -> RunnerResults] : n \in 0..MaxTests}

Missing == [shape |-> "absent", items |-> <<>>]

Present(shape, items) == [shape |-> shape, items |-> items]

\* a top-level summary shape: undefined, or its three counters
NoCounters == [present |-> FALSE, tests |-> 0, passed |-> 0, failed |-> 0]

Counters ==
  {[present |-> TRUE, tests |-> 0, passed |-> 0, failed |-> 0],
   [present |-> TRUE, tests |-> 1, passed |-> 1, failed |-> 0],
   [present |-> TRUE, tests |-> 2, passed |-> 1, failed |-> 1]}

SummaryShapes ==
  [numTotalTests : {NoCounters} \cup Counters,
   totals : {NoCounters} \cup Counters,
   stats : {NoCounters} \cup Counters]

\* the parsed value: the four properties the recognizers probe and the three
\* summary shapes
Data(testResults, files, suites, results, sm) ==
  [testResults |-> testResults, files |-> files, suites |-> suites, results |-> results,
   numTotalTests |-> sm.numTotalTests, totals |-> sm.totals, stats |-> sm.stats]

\* values with at most one of the shapes
OneShape ==
  {<<Missing, Missing, Missing, Missing>>}
  \cup {<<Present("array", l), Missing, Missing, Missing>> : l \in ItemLists({"absent"}, "absent")}
  \cup {<<Present("map", l), Missing, Missing, Missing>> :
          l \in ItemLists({"absent", "0", "1"}, "1")}
  \cup {<<Missing, Present("array", l), Missing, Missing>> :
          l \in ItemLists({"absent", "0", "1"}, "1") \ {<<NullItem>>}}
  \cup {<<Missing, Missing, Present("array", l), Missing>> :
          l \in ItemLists({"passed", "failed"}, "failed") \ {<<NullItem>>}}
  \cup {<<Missing, Missing, Missing, Present("array", l)>> : l \in RunnerResultLists}

\* what a second shape of a value holds: nothing, or one file with a failing test
Few(shape, flag) ==
  {Present(shape, <<>>),
   Present(shape, <<[isNull |-> FALSE, name |-> "a.test.ts", flag |-> flag,
                     tests |-> <<[name |-> "t", status |-> "failed"]>>]>>)}

FewResults ==
  {Present("array", <<>>),
   Present("array", <<[file |-> "b.test.ts", name |-> "t", status |-> "failed"]>>)}

\* values with two of the shapes
TwoShapes ==
  LET tr == Few("array", "absent") \cup Few("map", "1")
      fs == Few("array", "1")
      su == Few("array", "failed")
  IN {<<a, b, Missing, Missing>> : a \in tr, b \in fs}
     \cup {<<a, Missing, b, Missing>> : a \in tr, b \in su}
     \cup {<<a, Missing, Missing, b>> : a \in tr, b \in FewResults}
     \cup {<<Missing, a, b, Missing>> : a \in fs, b \in su}
     \cup {<<Missing, a, Missing, b>> : a \in fs, b \in FewResults}
     \cup {<<Missing, Missing, a, b>> : a \in su, b \in FewResults}

Datas == {Data(d[1], d[2], d[3], d[4], sm) : d \in OneShape \cup TwoShapes, sm \in SummaryShapes}

NoData == Data(Missing, Missing, Missing, Missing,
               [numTotalTests |-> NoCounters, totals |-> NoCounters, stats |-> NoCounters])

\* the texts without a value: '', blanks only, no '{', no '}', and text
\* between the braces that neither JSON.parse nor a nested segment can read
BrokenTexts == {"empty", "blank", "noOpenBrace", "noCloseBrace", "unparseable"}

\* the texts handed to parseVitestOutput: a broken text, JSON text, or text
\* of which only a nested {...} segment parses
Outputs ==
  {[text |-> t, data |-> NoData] : t \in BrokenTexts}
  \cup {[text |-> t, data |-> d] : t \in {"json", "segment"}, d \in Datas}

\* status words that make a test a passing one
PassWords == {"passed"}

\* ... in the files array shape
PassWordsOfFiles == {"pass", "passed"}

\* tests.map(test => ({ name, success: test.status === 'passed', ... }))
TransformTests(tests, words) ==
  [k \in 1..Len(tests) |-> [name |-> tests[k].name, success |-> tests[k].status \in words]]

\* transformedTests.some(test => !test.success)
HasFailingTests(tests) == \E k \in 1..Len(tests) : ~tests[k].success

\* the success flag a recognizer gives a file
FileSuccess(variant, item, tests) ==
  CASE variant = "testResultsArray" -> ~HasFailingTests(tests)
    [] variant = "testResultsMap" -> item.flag = "0"
    [] variant = "files" -> item.flag \in {"absent", "0"}
    [] variant = "suites" -> item.flag = "passed"

\* data.<list>.map(item => ({ file, success, tests })) of one recognizer
MapItems(variant, items, words) ==
  [i \in 1..Len(items) |->
     IF items[i].isNull
     THEN [file |-> items[i].name, success |-> FALSE, tests |-> <<>>]
     ELSE LET tests == TransformTests(items[i].tests, words)
          IN [file |-> items[i].name,
              success |-> FileSuccess(variant, items[i], tests),
              tests |-> tests]]

\* the keys of fileMap in insertion order
RECURSIVE FileKeys(_, _)
FileKeys(results, seen) ==
  IF results = <<>> THEN <<>>
  ELSE IF Head(results).file \in seen THEN FileKeys(Tail(results), seen)
  ELSE <<Head(results).file>> \o FileKeys(Tail(results), seen \cup {Head(results).file})

RECURSIVE ResultsOfFile(_, _)
ResultsOfFile(results, file) ==
  IF results = <<>> THEN <<>>
  ELSE (IF Head(results).file = file THEN <<Head(results)>> ELSE <<>>)
       \o ResultsOfFile(Tail(results), file)

\* Object.entries(fileMap).map(([file, tests]) => ({ file, success, tests }))
GroupByFile(results) ==
  LET keys == FileKeys(results, {})
  IN [i \in 1..Len(keys) |->
        LET tests == TransformTests(ResultsOfFile(results, keys[i]), PassWords)
        IN [file |-> keys[i], success |-> ~HasFailingTests(tests), tests |-> tests]]

\* the fake file result of extractFileResults
Placeholder ==
  <<[file |-> "unknown", success |-> FALSE,
     tests |-> <<[name |-> "Placeholder test", success |-> FALSE]>>]>>

Threw == [threw |-> TRUE, files |-> <<>>]

Returned(files) == [threw |-> FALSE, files |-> files]

\* a property of null is read: TypeError
ReadsNull(items) == \E i \in 1..Len(items) : items[i].isNull

\* extractFileResults(data): the files of the first shape that is present
ExtractFileResults(data) ==
  IF data.testResults.shape = "array"
  THEN IF ReadsNull(data.testResults.items) THEN Threw
       ELSE Returned(MapItems("testResultsArray", data.testResults.items, PassWords))
  ELSE IF data.testResults.shape = "map"
  THEN Returned(MapItems("testResultsMap", data.testResults.items, PassWords))
  ELSE IF data.files.shape = "array"
  THEN IF ReadsNull(data.files.items) THEN Threw
       ELSE Returned(MapItems("files", data.files.items, PassWordsOfFiles))
  ELSE IF data.suites.shape = "array"
  THEN IF ReadsNull(data.suites.items) THEN Threw
       ELSE Returned(MapItems("suites", data.suites.items, PassWords))
  ELSE IF data.results.shape = "array"
  THEN Returned(GroupByFile(data.results.items))
  ELSE Returned(Placeholder)

\* Summary with the passed counter read as the total
Summary_TotalIsPassed(c) ==
  [total |-> c.passed, passed |-> c.passed, failed |-> c.failed, error |-> ""]

\* { total, passed, failed } of a summary shape
Summary(c) == [total |-> c.tests, passed |-> c.passed, failed |-> c.failed, error |-> ""]

\* ExtractSummary that prefers the totals object
ExtractSummary_TotalsFirst(data) ==
  IF data.totals.present THEN Summary(data.totals)
  ELSE IF data.numTotalTests.present THEN Summary(data.numTotalTests)
  ELSE IF data.stats.present THEN Summary(data.stats)
  ELSE Summary(NoCounters)

\* extractSummary(data)
ExtractSummary(data) ==
  IF data.numTotalTests.present THEN Summary(data.numTotalTests)
  ELSE IF data.totals.present THEN Summary(data.totals)
  ELSE IF data.stats.present THEN Summary(data.stats)
  ELSE Summary(NoCounters)

\* createEmptyTestResults(errorMessage)
CreateEmptyTestResults(errorMessage) ==
  [files |-> <<[file |-> "error", success |-> FALSE,
                tests |-> <<[name |-> "Error", success |-> FALSE]>>]>>,
   summary |-> [total |-> 0, passed |-> 0, failed |-> 1, error |-> errorMessage]]

\* parseVitestOutput(output)
ParseVitestOutput(out) ==
  IF out.text \in {"empty", "blank"} THEN CreateEmptyTestResults("Empty output from Vitest")
  ELSE IF out.text = "noOpenBrace" THEN CreateEmptyTestResults("No JSON data found in output")
  ELSE IF out.text = "noCloseBrace"
  THEN CreateEmptyTestResults("Incomplete JSON data in output")
  ELSE IF out.text = "unparseable" THEN CreateEmptyTestResults("JSON parse error")
  ELSE LET fileResults == ExtractFileResults(out.data)
       IN IF fileResults.threw THEN CreateEmptyTestResults("TypeError")
          ELSE IF Len(fileResults.files) = 0
          THEN CreateEmptyTestResults("No test files found in Vitest output")
          ELSE [files |-> fileResults.files, summary |-> ExtractSummary(out.data)]

\* runTests hands the text of the test command to parseVitestOutput
ParseOutput ==
  /\ ~parsed.returned
  /\ output.text # "none"
  /\ parsed' = [returned |-> TRUE, report |-> ParseVitestOutput(output)]
  /\ UNCHANGED <<output, loopVars, promptVars, debounceVars, runnerVars>>

InitParse ==
  /\ LoopAtStart(TRUE)
  /\ maxAttempts = MaxAttempts
  /\ output \in Outputs
  /\ parsed = NotParsed
  /\ PromptAtRest
  /\ DebounceAtStart
  /\ RunnerAtRest

NextParse == ParseOutput

\* the parser applied to each of the texts
SpecParse == InitParse /\ [][NextParse]_vars

----------------------------------------------------------------------------
(* The prompt builder: what buildPrompt works out from previousAttempts     *)
(* (ai-service.ts).  A text is the sequence of its pieces.                  *)

\* the previous attempts handed to buildPrompt
MaxPrevious == 4

\* testResults.passingTests of a previous attempt
PassingCounts == {0, 1, 2, 5}

\* names and error texts of failure details; a text may hold ": " itself
FailureNames == {<<"A">>, <<"A", ": ", "x">>}

FailureErrors == {<<"boom">>, <<"x", ": ", "boom">>}

Failures == [name : FailureNames, error : FailureErrors]

\* the failureDetails of one previous attempt: none, one, or one listed twice
FailureLists == {<<>>} \cup {<<f>> : f \in Failures} \cup {<<f, f>> : f \in Failures}

PreviousAttempt(passingTests, failureDetails) ==
  [testResults |-> [passingTests |-> passingTests, failureDetails |-> failureDetails]]

\* the lists of previous attempts that are enumerated: their passing counts
\* vary, or their failure details do
PreviousAttemptLists ==
  UNION {[1..n -> {PreviousAttempt(c, <<>>) : c \in PassingCounts}] : n \in 1..MaxPrevious}
  \cup UNION {[1..n -> {PreviousAttempt(0, fl) : fl \in FailureLists}] : n \in 1..MaxPrevious}

\* BestAttemptIndex that lets a later attempt with as many passing tests win
RECURSIVE BestAttemptFrom_LastWins(_, _, _, _)
BestAttemptFrom_LastWins(attempts, i, bestAttemptIndex, mostPassingTests) ==
  IF i >= Len(attempts) THEN [bestAttemptIndex |-> bestAttemptIndex,
                              mostPassingTests |-> mostPassingTests]
  ELSE LET passingTests == attempts[i + 1].testResults.passingTests
       IN IF passingTests >= mostPassingTests
          THEN BestAttemptFrom_LastWins(attempts, i + 1, i, passingTests)
          ELSE BestAttemptFrom_LastWins(attempts, i + 1, bestAttemptIndex, mostPassingTests)

\* for (let i = 0; ...) if (passingTests > mostPassingTests) { ... }: the
\* loop from index i on (indices count from 0 as in the code)
RECURSIVE BestAttemptFrom(_, _, _, _)
BestAttemptFrom(attempts, i, bestAttemptIndex, mostPassingTests) ==
  IF i >= Len(attempts) THEN [bestAttemptIndex |-> bestAttemptIndex,
                              mostPassingTests |-> mostPassingTests]
  ELSE LET passingTests == attempts[i + 1].testResults.passingTests
       IN IF passingTests > mostPassingTests
          THEN BestAttemptFrom(attempts, i + 1, i, passingTests)
          ELSE BestAttemptFrom(attempts, i + 1, bestAttemptIndex, mostPassingTests)

\* `${failure.name}: ${failure.error}`
ErrorKey(failure) == failure.name \o <<": ">> \o failure.error

\* all failure details of the attempts, in order
RECURSIVE AllFailures(_)
AllFailures(attempts) ==
  IF attempts = <<>> THEN <<>>
  ELSE Head(attempts).testResults.failureDetails \o AllFailures(Tail(attempts))

\* commonErrors after the failures: the keys in insertion order and their counts
RECURSIVE CommonErrors(_, _, _)
CommonErrors(failures, keys, counts) ==
  IF failures = <<>> THEN [keys |-> keys, counts |-> counts]
  ELSE LET key == ErrorKey(Head(failures))
       IN IF key \in DOMAIN counts
          THEN CommonErrors(Tail(failures), keys, [counts EXCEPT ![key] = @ + 1])
          ELSE CommonErrors(Tail(failures), Append(keys, key),
                            [k \in DOMAIN counts \cup {key} |->
                               IF k = key THEN 1 ELSE counts[k]])

\* Quorum that asks for more than half of the attempts
Quorum_Majority(n) == n \div 2 + 1

\* Math.ceil(previousAttempts.length / 2)
Quorum(n) == (n + 1) \div 2

\* Array.from(commonErrors.entries()).filter(([_, count]) => count >= ...).map(...)
PersistentErrors(attempts) ==
  LET common == CommonErrors(AllFailures(attempts), <<>>, <<>>)
      RECURSIVE Keep(_)
      Keep(keys) ==
        IF keys = <<>> THEN <<>>
        ELSE (IF common.counts[Head(keys)] >= Quorum(Len(attempts))
              THEN <<Head(keys)>> ELSE <<>>) \o Keep(Tail(keys))
  IN Keep(common.keys)

\* buildPrompt works out the best attempt and the persistent errors
BuildPrompt ==
  /\ ~prompt.built
  /\ Len(previousAttempts) > 0
  /\ prompt' = [built |-> TRUE,
                best |-> BestAttemptFrom(previousAttempts, 0, 0, 0),
                persistentErrors |-> PersistentErrors(previousAttempts)]
  /\ UNCHANGED <<previousAttempts, loopVars, parserVars, debounceVars, runnerVars>>

InitPrompt ==
  /\ LoopAtStart(TRUE)
  /\ maxAttempts = MaxAttempts
  /\ ParserAtRest
  /\ previousAttempts \in PreviousAttemptLists
  /\ prompt = NotBuilt
  /\ DebounceAtStart
  /\ RunnerAtRest

NextPrompt == BuildPrompt

\* buildPrompt applied to each of the lists of previous attempts
SpecPrompt == InitPrompt /\ [][NextPrompt]_vars

----------------------------------------------------------------------------
(* The debounced file watcher: debounce and the change / add handlers of    *)
(* the startWatcher that uses it.  Time is counted in ticks of 100 ms.      *)

\* the ticks the clock runs for
MaxTime == 8

\* the notifications chokidar gives
MaxNotifications == 3

\* debounce(..., 300): the wait, in ticks
DebounceWait == 3

\* if (now - lastChange < 500): the guard of the change handler, in ticks
ChangeGuard == 5

\* Date.now() at tick 0: the watcher starts long after the epoch
Epoch == 1000

\* Date.now()
DateNow == Epoch + now

\* fileChangeTimestamps.get(changedFile) || 0
LastChange(changedFile) ==
  IF changedFile \in DOMAIN fileChangeTimestamps THEN fileChangeTimestamps[changedFile] ELSE 0

\* fileChangeTimestamps.set(changedFile, now)
SetTimestamp(changedFile) ==
  [f \in DOMAIN fileChangeTimestamps \cup {changedFile} |->
     IF f = changedFile THEN DateNow ELSE fileChangeTimestamps[f]]

\* the timers debounce can set
Timers ==
  [at : DebounceWait..(MaxTime + DebounceWait), changedFile : TestPaths,
   cause : 1..MaxNotifications]

\* ClearTimeout that leaves the timer pending
ClearTimeout_Keeps(pending, handle) == pending

\* if (timeout) clearTimeout(timeout)
ClearTimeout(pending, handle) == pending \ {handle}

\* debouncedOnChange(changedFile): the call of the function debounce returns;
\* cause is the notification that makes the call
Debounced(changedFile, cause) ==
  LET timer == [at |-> now + DebounceWait, changedFile |-> changedFile, cause |-> cause]
  IN /\ timers' = ClearTimeout(timers, timeout) \cup {timer}
     /\ timeout' = timer

\* watcher.on('change', ...)
ChangeEvent(changedFile) ==
  /\ watcherOpen
  /\ Len(notified) < MaxNotifications
  /\ notified' = Append(notified, [at |-> now, changedFile |-> changedFile, kind |-> "change"])
  /\ IF DateNow - LastChange(changedFile) < ChangeGuard
     THEN UNCHANGED <<timers, timeout, fileChangeTimestamps>>
     ELSE /\ fileChangeTimestamps' = SetTimestamp(changedFile)
          /\ Debounced(changedFile, Len(notified) + 1)
  /\ UNCHANGED <<now, delivered, loopVars, parserVars, promptVars, runnerVars>>

\* watcher.on('add', ...)
AddEvent(addedFile) ==
  /\ watcherOpen
  /\ Len(notified) < MaxNotifications
  /\ notified' = Append(notified, [at |-> now, changedFile |-> addedFile, kind |-> "add"])
  /\ Debounced(addedFile, Len(notified) + 1)
  /\ UNCHANGED <<now, fileChangeTimestamps, delivered, loopVars, parserVars, promptVars,
                 runnerVars>>

\* setTimeout(() => { func(...args); timeout = null }, wait): the timer is
\* due, its callback runs
Expires(timer) ==
  /\ timer \in timers
  /\ now >= timer.at
  /\ delivered' = Append(delivered, [at |-> now, changedFile |-> timer.changedFile,
                                     cause |-> timer.cause])
  /\ timers' = timers \ {timer}
  /\ timeout' = NoTimeout

\* a timer set by debounce fires, at its time or later:
\* func(...args); timeout = null
TimerFires(timer) ==
  /\ Expires(timer)
  /\ UNCHANGED <<now, fileChangeTimestamps, notified, loopVars, parserVars, promptVars,
                 runnerVars>>

\* 100 ms pass
Tick ==
  /\ now < MaxTime
  /\ now' = now + 1
  /\ UNCHANGED <<timers, timeout, fileChangeTimestamps, notified, delivered,
                 loopVars, parserVars, promptVars, runnerVars>>

InitDebounce ==
  /\ LoopAtStart(TRUE)
  /\ maxAttempts = MaxAttempts
  /\ ParserAtRest
  /\ PromptAtRest
  /\ DebounceAtStart
  /\ RunnerAtRest

NextDebounce ==
  \/ \E changedFile \in TestPaths : ChangeEvent(changedFile)
  \/ \E addedFile \in TestPaths : AddEvent(addedFile)
  \/ \E timer \in Timers : TimerFires(timer)
  \/ Tick

\* the debounced watcher under the notifications chokidar gives
SpecDebounce == InitDebounce /\ [][NextDebounce]_vars

\* the debounced watcher when time passes and every timer that is due and
\* was not cleared runs its callback
SpecDebounceFair ==
  SpecDebounce /\ WF_vars(Tick) /\ \A timer \in Timers : WF_vars(TimerFires(timer))

----------------------------------------------------------------------------
(* The test runner: runTests (test-runner.ts), between the orchestration     *)
(* loop and the report parser.                                              *)

\* the exit code of the test command: 0, or another one
ExitCodes == {0, 1}

\* what the test command wrote to stderr: nothing, one line, several lines
ErrorOutputs == {"", "line", "lines"}

\* output.trim() === ''
IsEmptyOutput(out) == out.text \in {"empty", "blank"}

\* `{"error": "${errorOutput.replace(/"/g, '\\"')}"}`: an object with the one
\* property error; a line break of errorOutput inside the string literal
\* makes text that JSON.parse does not read
ErrorOutputAsJson(errorOutput) ==
  [text |-> IF errorOutput = "lines" THEN "unparseable" ELSE "json", data |-> NoData]

\* the text runTests hands to parseVitestOutput
TextToParse(out, errorOutput) ==
  IF IsEmptyOutput(out) /\ errorOutput # "" THEN ErrorOutputAsJson(errorOutput) ELSE out

\* return { success: false, error }
ErrorResult == [success |-> FALSE, hasResults |-> FALSE, parsedText |-> NoOutput]

\* runTests({ projectPath }): what it resolves to when the test command ends
\* with exitCode, out on stdout and errorOutput on stderr, or is rejected
RunTests(exitCode, out, errorOutput, rejected) ==
  IF rejected \/ (exitCode # 0 /\ IsEmptyOutput(out)) THEN ErrorResult
  ELSE [success |-> exitCode = 0, hasResults |-> TRUE,
        parsedText |-> TextToParse(out, errorOutput)]

\* a path given as text, by its segments
PathOf(file) ==
  CASE file = "a.test.ts" -> <<"a", "test", "ts">>
    [] file = "b.test.ts" -> <<"b", "test", "ts">>
    [] OTHER -> <<file>>

\* results: testResults, as the loop reads it: the files by their paths, the
\* tests with the error text the loop falls back from
ResultsForLoop(report) ==
  [files |-> [i \in 1..Len(report.files) |->
                [file |-> PathOf(report.files[i].file),
                 tests |-> [k \in 1..Len(report.files[i].tests) |->
                              [name |-> report.files[i].tests[k].name,
                               success |-> report.files[i].tests[k].success,
                               error |-> ""]]]],
   summary |-> [total |-> report.summary.total, passed |-> report.summary.passed,
                failed |-> report.summary.failed]]

\* the test command of the attempt in progress ends, with exitCode, out on
\* stdout and errorOutput on stderr (or it is rejected), and runTests settles
RunTestsSettles(l) ==
  /\ loops[l].pc = "runTests"
  /\ testRun.attempt # state.attempts
  /\ \E exitCode \in ExitCodes, out \in Outputs, errorOutput \in ErrorOutputs,
        rejected \in BOOLEAN :
        LET r == RunTests(exitCode, out, errorOutput, rejected)
        IN /\ testRun' = [attempt |-> state.attempts, success |-> r.success,
                          hasResults |-> r.hasResults]
           /\ output' = r.parsedText
           /\ parsed' = IF r.hasResults
                        THEN [returned |-> TRUE, report |-> ParseVitestOutput(r.parsedText)]
                        ELSE NotParsed
  /\ UNCHANGED <<loopVars, promptVars, debounceVars>>

\* const testResults = await runTests({ projectPath }): the value runLoop receives
Resolved ==
  [success |-> testRun.success, hasResults |-> testRun.hasResults,
   results |-> IF testRun.hasResults THEN ResultsForLoop(parsed.report) ELSE NoReport]

\* runLoop resumes with the value runTests settled with
RunTestsResolves(l) ==
  /\ testRun.attempt = state.attempts
  /\ RunTestsDone(l, Resolved)

\* the steps of a session up to the outcome of its test executions
NextRun ==
  \/ StartLoop
  \/ \E l \in Loops : RunTestsSettles(l)
  \/ \E l \in Loops : RunTestsResolves(l)
  \/ \E l \in Loops : RetryDelayDone(l)

\* the session with runTests and the parser in place of arbitrary test results
SpecRun == InitSkip /\ [][NextRun]_vars

----------------------------------------------------------------------------
(* The session behind the debounced watcher: startWatcher with debounce     *)
(* hands the orchestrator's onChange to the timer callback.                 *)

\* a timer set by debounce fires: func(...args) is onChange(changedFile) of
\* startTddAiLoop
DebouncedOnChange(timer) ==
  /\ phase # "init"
  /\ Expires(timer)
  /\ ResetAndRun(timer.changedFile)
  /\ UNCHANGED <<watcherOpen, overrides, skipValidation, maxAttempts, blocked,
                 now, fileChangeTimestamps, notified, parserVars, promptVars, runnerVars>>

\* the test runs of a project whose tests all pass once they can be run:
\* an error result without results, or success
SettledRuns == {tr \in TestResultValues : tr.success \/ ~tr.hasResults}

\* the steps of a session whose change events come through the debounced
\* watcher, for a project whose test runs fail to start or succeed (no
\* per-file step is reached) and whose test files change (none is added)
NextWatch ==
  \/ StartLoop
  \/ \E l \in Loops, tr \in SettledRuns : RunTestsDone(l, tr)
  \/ \E l \in Loops : RetryDelayDone(l)
  \/ \E changedFile \in TestPaths : ChangeEvent(changedFile)
  \/ \E timer \in Timers : DebouncedOnChange(timer)
  \/ Tick
  \/ Stop

\* a session with options.maxAttempts = 1
InitWatch == InitSkip /\ maxAttempts = 1

SpecWatch == InitWatch /\ [][NextWatch]_vars

----------------------------------------------------------------------------
(* Properties *)

\* the step is onChange for a test file: it makes the runLoop call l
Restarted(l) == phase # "init" /\ loops[l].pc = "idle" /\ loops'[l].pc # "idle"

\* the step starts a test execution in the call l
TestsStarted(l) == loops[l].pc # "runTests" /\ loops'[l].pc = "runTests"

\* two values of one position of history refer to the same attempt object
SameObject(e, f) == Fields(e) = Fields(f) \/ (e.ref # 0 /\ e.ref = f.ref)

\* C1: at most one runLoop iteration is in flight at any time: a test-file
\* change event delivered while an iteration is in flight starts no second
\* concurrent runLoop.
C1_AtMostOneLoopInFlight == Cardinality(InFlight) <= 1

\* C2: the records of history for one target file carry strictly increasing
\* attempt numbers in history order.
C2_AttemptNumbersIncreasePerFile ==
  \A i, j \in 1..Len(state.history) :
     (/\ i < j
      /\ state.history[i].fileUpdated # NoPath
      /\ state.history[i].fileUpdated = state.history[j].fileUpdated)
     => state.history[i].attempt < state.history[j].attempt

\* C3: with no change event and no test run reporting success, startTddAiLoop
\* starts one test execution per attempt, numbers the attempts 1..maxAttempts,
\* and returns after exactly maxAttempts of them with 'max_attempts_reached'
\* emitted once.
C3_ExactlyMaxAttemptsIterations ==
  (restart = "none" /\ sinceReset.success = 0) =>
     /\ sinceReset.running_tests = state.attempts
     /\ state.attempts <= maxAttempts
     /\ emitted.status = "running_tests" => emitted.attempt = state.attempts
     /\ \A i \in 1..Len(state.history) : state.history[i].attempt \in 1..state.attempts
     /\ phase = "returned" =>
          state.attempts = maxAttempts /\ sinceReset.max_attempts_reached = 1
     /\ phase # "returned" => sinceReset.max_attempts_reached = 0

C3_Witness ==
  /\ restart = "none" /\ phase = "returned" /\ sinceReset.success = 0
  /\ state.attempts = maxAttempts /\ maxAttempts >= 2
  /\ emitted.status = "max_attempts_reached"

\* the statuses emitted by the validation gate, before generation and after apply
GateAndGenerationStatuses ==
  {"validation_waiting", "validation_warning", "generating_code", "implementation_updated"}

\* C4: when the first test execution of a run cycle reports success the
\* session is Succeeded at attempt 1: all tests passing, one success record of
\* attempt 1 in history, and neither the validation gate nor generation nor
\* apply was reached in the cycle (no status other than 'running_tests' and
\* 'success' was emitted since the cycle began).
C4_SuccessAtFirstAttempt ==
  (sinceReset.running_tests = 1 /\ sinceReset.success = 1) =>
     /\ state.attempts = 1
     /\ state.allTestsPassing
     /\ sinceReset.seen \cap GateAndGenerationStatuses = {}
     /\ Len(state.history) = 1
     /\ state.history[1].attempt = 1
     /\ state.history[1].success = "true"
     /\ state.history[1].fileUpdated = NoPath

\* The same in the cycles that begin while no runLoop call is in flight; there
\* the call has also returned.
SuccessAtFirstAttemptSequential ==
  restart # "in_flight" =>
     /\ C4_SuccessAtFirstAttempt
     /\ (sinceReset.running_tests = 1 /\ sinceReset.success = 1) =>
           (InFlight = {} /\ sinceReset.seen = {"running_tests", "success"})

\* C5: a step emits 'success' exactly when it sets allTestsPassing; that step
\* appends one record with success = true and the current attempt number to
\* history; and while allTestsPassing stays set no test execution is started.
C5_SuccessStopsTheLoop ==
  [][/\ (sinceReset'.success = sinceReset.success + 1) =>
          /\ state'.allTestsPassing
          /\ emitted'.status = "success"
          /\ Len(state'.history) = Len(state.history) + 1
          /\ SubSeq(state'.history, 1, Len(state.history)) = state.history
          /\ state'.history[Len(state'.history)].success = "true"
          /\ state'.history[Len(state'.history)].attempt = state.attempts
     /\ (~state.allTestsPassing /\ state'.allTestsPassing) =>
          sinceReset'.success = sinceReset.success + 1
     /\ (state.allTestsPassing /\ state'.allTestsPassing) =>
          /\ sinceReset'.running_tests = sinceReset.running_tests
          /\ \A l \in Loops : ~TestsStarted(l)]_vars

C5_Witness ==
  /\ state.allTestsPassing /\ state.attempts = 2 /\ emitted.status = "success"
  /\ Len(state.history) >= 2
  /\ state.history[Len(state.history)].attempt = 2

\* C6: once stop() has set running to false the watcher is closed and no
\* iteration starts any more: no test execution is started and no
\* 'running_tests' status is emitted, also when a runLoop call is in flight.
C6_NoIterationAfterStop ==
  /\ [](~state.running => ~watcherOpen)
  /\ [][~state.running =>
          /\ ~state'.running
          /\ emitted'.status # "running_tests"
          /\ sinceReset'.running_tests = sinceReset.running_tests
          /\ \A l \in Loops : ~TestsStarted(l)]_vars

C6_Witness ==
  /\ ~state.running
  /\ \E l \in Loops : loops[l].pc = "generate" /\ emitted.status = "generating_code"

\* C7: a stop request is observed between the per-file steps: after it an
\* iteration finishes at most the step of the file it is processing and goes
\* on to no further file of its list.
C7_StopObservedBetweenFiles ==
  [][~state.running =>
        \A l \in Loops :
           (loops[l].todo # <<>> /\ loops'[l].todo = Tail(loops[l].todo))
           => loops'[l].todo = <<>>]_vars

\* C8: emitting 'max_attempts_reached' leaves the watcher open; a test-file
\* change event after it starts a cycle with attempts = 1 and an empty
\* history, and when no runLoop call was in flight at that event the first
\* iteration of the cycle works with attempt number 1 throughout.
C8_RestartAfterMaxAttempts ==
  /\ [](state.running => watcherOpen \/ phase # "returned")
  /\ []((restart = "max_attempts_reached" /\ sinceReset.running_tests = 1) =>
          /\ state.attempts = 1
          /\ \A l \in InFlight : loops[l].currentAttempt.attempt \in {0, 1}
          /\ \A i \in 1..Len(state.history) : state.history[i].attempt = 1
          /\ (\E l \in Loops : loops[l].pc = "runTests") => state.history = <<>>)
  /\ [][/\ emitted'.status = "max_attempts_reached" =>
             (watcherOpen' = watcherOpen /\ state'.running = state.running)
        /\ \A l \in Loops :
             (Restarted(l) /\ sinceReset.max_attempts_reached > 0) =>
                /\ loops'[l].pc = "runTests"
                /\ state'.attempts = 1
                /\ state'.history = <<>>
                /\ emitted' = Update("running_tests", 1, NoPath)
                /\ sinceReset'.max_attempts_reached = 0]_vars

C8_Witness ==
  /\ restart = "max_attempts_reached"
  /\ state.attempts = 1 /\ state.history = <<>>
  /\ \E l \in Loops : loops[l].pc = "runTests"

\* C9: a test-file change event that fires while no runLoop call is in
\* flight resets the session and re-enters the loop: after it attempts is 1
\* (0, then the increment of the first iteration), allTestsPassing is false,
\* history is empty and the new call waits for its first test execution.
C9_ChangeResetsAndRestarts ==
  [][\A l \in Loops :
        (Restarted(l) /\ InFlight = {}) =>
           /\ state'.attempts = 1
           /\ ~state'.allTestsPassing
           /\ state'.history = <<>>
           /\ state'.running
           /\ InFlight' = {l}
           /\ loops'[l].pc = "runTests"
           /\ sinceReset' = Tally(NothingEmitted, Update("running_tests", 1, NoPath))]_vars

C9_Witness ==
  /\ restart = "success"
  /\ state.attempts = 1 /\ ~state.allTestsPassing /\ state.history = <<>>
  /\ \E l \in Loops : loops[l].pc = "runTests"

\* C10: history is append-only between two test-file change events: a step
\* that is not such an event leaves the records history holds as they are and
\* may add records at the end (the previous history is a prefix of the new
\* one); history is emptied by the reset of a test-file change event only.
C10_HistoryAppendOnly ==
  [][IF \E l \in Loops : Restarted(l)
     THEN state'.history = <<>>
     ELSE /\ Len(state'.history) >= Len(state.history)
          /\ \A i \in 1..Len(state.history) :
                Fields(state'.history[i]) = Fields(state.history[i])]_vars

\* The same for the positions of history instead of the records' contents:
\* every position keeps referring to the attempt object it was given.
HistoryKeepsItsObjects ==
  [][IF \E l \in Loops : Restarted(l)
     THEN state'.history = <<>>
     ELSE /\ Len(state'.history) >= Len(state.history)
          /\ \A i \in 1..Len(state.history) :
                SameObject(state.history[i], state'.history[i])]_vars

\* the positions of a runLoop call inside its per-file for loop
PerFilePcs == {"readTest", "validate", "decision", "readImpl", "generate", "apply"}

\* the call l takes the step
Steps(l) == loops'[l] # loops[l]

\* the step of call l ends the processing of its file: the for loop goes to
\* the next file of the list, or to the settling delay after the last one
MovesOn(l) ==
  /\ loops'[l].todo = Tail(loops[l].todo)
  /\ loops'[l].pc = IF Tail(loops[l].todo) = <<>> THEN "settleDelay" ELSE "readTest"

\* C11: a record is immutable once it is in history: in a step that does not
\* reset the session, the implementation, fileUpdated, success and
\* testResults of every record that stays in history are unchanged.
C11_RecordsImmutable ==
  [][(~ \E l \in Loops : Restarted(l)) =>
        \A i \in 1..Len(state.history) :
           i <= Len(state'.history) =>
              /\ state'.history[i].implementation = state.history[i].implementation
              /\ state'.history[i].fileUpdated = state.history[i].fileUpdated
              /\ state'.history[i].success = state.history[i].success
              /\ state'.history[i].testResults = state.history[i].testResults]_vars

\* the iterations the first runLoop call has completed
CompletedIterations ==
  IF loops[1].pc = "idle" THEN 0
  ELSE IF loops[1].pc = "done" THEN state.attempts
  ELSE state.attempts - 1

\* C12: every completed iteration leaves at least one record in history:
\* without a restart, history is at least as long as the number of
\* iterations completed.
C12_EveryIterationLeavesARecord ==
  restart = "none" => Len(state.history) >= CompletedIterations

\* the names of the tests of a file result
TestNames(fileResult) == {fileResult.tests[k].name : k \in 1..Len(fileResult.tests)}

\* C13: the previous attempts handed to generateImplementation for a file
\* hold failure details of that file's own tests only (stated for the
\* sessions in which no test file has changed: one runLoop call).
C13_ContextScopedToFile ==
  [][\A l \in Loops :
        (restart = "none" /\ loops[l].pc = "readImpl" /\ loops'[l].pc = "generate") =>
           LET fileResult == Head(loops[l].todo)
               ctx == PreviousAttemptsForFile(state.history,
                                              ImplementationPath(fileResult.file))
           IN \A i \in 1..Len(ctx) :
                 \A k \in 1..Len(ctx[i].testResults.failureDetails) :
                    ctx[i].testResults.failureDetails[k].name \in TestNames(fileResult)]_vars

\* the messages of the error statuses of the three per-file failures
FileFailureMessages ==
  {"Error reading test file", "Error generating implementation",
   "Error applying generated code"}

\* C14: a failed per-file step (test file unreadable, generation failed,
\* apply failed) emits 'error' and the for loop moves on to the next file of
\* the list with the session state untouched; a step inside the for loop
\* never leaves it before the last file; and after the settling delay the
\* loop starts the next attempt when the while condition holds.
C14_FileFailureDoesNotAbort ==
  [][/\ emitted'.message \in FileFailureMessages =>
          /\ emitted'.status = "error"
          /\ state' = state
          /\ \E l \in Loops :
                loops[l].pc \in {"readTest", "generate", "apply"} /\ Steps(l) /\ MovesOn(l)
     /\ \A l \in Loops :
          (loops[l].pc \in PerFilePcs /\ Steps(l)) =>
             \/ loops'[l].todo = loops[l].todo /\ loops'[l].pc \in PerFilePcs
             \/ MovesOn(l)
     /\ \A l \in Loops :
          (/\ loops[l].pc = "settleDelay" /\ Steps(l)
           /\ state.running /\ ~state.allTestsPassing /\ state.attempts < maxAttempts) =>
             /\ loops'[l].pc = "runTests"
             /\ state'.attempts = state.attempts + 1]_vars

C14_Witness ==
  /\ restart = "none"
  /\ emitted.message = "Error generating implementation"
  /\ loops[1].pc = "readTest"
  /\ Head(loops[1].todo).file = TestPath(2)

\* C15: generated code that is empty is handled like a failed generation: it
\* never reaches applyGeneratedCode (nothing is written), no record with an
\* empty implementation is in history, and the step emits 'error', leaves the
\* session state as it is and moves on to the next file.
C15_EmptyCodeIsAFailure ==
  /\ [](\A l \in Loops : loops[l].pc = "apply" => loops[l].generated # "")
  /\ [](\A i \in 1..Len(state.history) :
          state.history[i].fileUpdated # NoPath => state.history[i].implementation # "")
  /\ [][emitted'.message = "AI returned empty implementation" =>
          /\ emitted'.status = "error"
          /\ state' = state
          /\ \E l \in Loops : loops[l].pc = "generate" /\ Steps(l) /\ MovesOn(l)]_vars

C15_Witness ==
  /\ restart = "none"
  /\ emitted.message = "AI returned empty implementation"
  /\ state.history = <<>>
  /\ loops[1].pc = "readTest"
  /\ Head(loops[1].todo).file = TestPath(2)

\* C16: the per-file steps run only for files of the report that hold at
\* least one failing test.
C16_OnlyFailingFilesProcessed ==
  \A l \in Loops : loops[l].pc \in PerFilePcs => HasFailingTest(Head(loops[l].todo))

\* C17: once setValidationOverride(P) was called, onValidationIssue is not
\* invoked for P again.
C17_OverridePersists ==
  \A l \in Loops : loops[l].pc = "decision" => Head(loops[l].todo).file \notin overrides

\* C18: the answer 'do not proceed' for a file ends the processing of that
\* file in this attempt only: it sets no override, leaves the session state
\* as it is, emits 'error' for the file and the for loop moves on to the
\* files that remain; when the file is read again in a later attempt the gate
\* evaluates it anew.
C18_BlockedForThisAttemptOnly ==
  [][\A l \in Loops :
        LET testFilePath == Head(loops[l].todo).file
        IN /\ (loops[l].pc = "decision" /\ Steps(l)) =>
                \/ /\ loops'[l].pc = "readImpl"
                   /\ loops'[l].todo = loops[l].todo
                   /\ overrides' = overrides \cup {testFilePath}
                   /\ blocked' = blocked
                \/ /\ MovesOn(l)
                   /\ \A k \in 1..Len(loops'[l].todo) : loops'[l].todo[k].file # testFilePath
                   /\ overrides' = overrides
                   /\ state' = state
                   /\ emitted' = ErrorUpdate("Test validation failed", testFilePath)
                   /\ blocked' = blocked \cup {testFilePath}
           /\ (/\ loops[l].pc = "readTest" /\ Steps(l)
               /\ loops'[l].todo = loops[l].todo
               /\ testFilePath \in blocked /\ testFilePath \notin overrides) =>
                 /\ loops'[l].pc = "validate"
                 /\ loops'[l].gate = NotEvaluated]_vars

C18_Witness ==
  /\ state.attempts = 2
  /\ \E l \in Loops :
        /\ loops[l].pc = "validate"
        /\ Head(loops[l].todo).file \in blocked

C20_GateFailsOpen ==
  /\ [](\A l \in Loops :
          loops[l].gate.detection \in {"failed", "threw"} =>
             /\ loops[l].pc \in {"readImpl", "generate", "apply"}
             /\ loops[l].gate.decision = "")
  /\ [][\A l \in Loops :
          (loops[l].pc = "validate" /\ Steps(l)
           /\ loops'[l].gate.detection \in {"failed", "threw"}) =>
             /\ loops'[l].pc = "readImpl"
             /\ loops'[l].todo = loops[l].todo
             /\ overrides' = overrides
             /\ emitted'.status \in {"none", "validation_warning"}]_vars

C20_Witness ==
  \E l \in Loops :
     /\ loops[l].pc = "generate"
     /\ loops[l].gate.detection = "failed"
     /\ emitted.status = "generating_code"

\* C21: when runTests resolves to an error result without a report the loop
\* aborts: after the wait that follows no further test execution is started
\* and the attempt counter is not advanced (the budget is not spent on
\* retrying the failed execution).
C21_AbortsWhenTestsCannotRun ==
  [][\A l \in Loops :
        (restart = "none" /\ loops[l].pc = "retryDelay" /\ Steps(l)) =>
           /\ ~TestsStarted(l)
           /\ state'.attempts = state.attempts]_vars

\* C22: between two resets 'success' and 'max_attempts_reached' are never
\* both emitted, and 'max_attempts_reached' is emitted only by a step that
\* leaves attempts >= maxAttempts with allTestsPassing false.
C22_BudgetExhaustionDistinct ==
  /\ [](~(sinceReset.success > 0 /\ sinceReset.max_attempts_reached > 0))
  /\ [][sinceReset'.max_attempts_reached > sinceReset.max_attempts_reached =>
          /\ emitted'.status = "max_attempts_reached"
          /\ state'.attempts >= maxAttempts
          /\ ~state'.allTestsPassing]_vars

\* The same in the cycles that begin while no runLoop call is in flight.
BudgetExhaustionDistinctSequential ==
  /\ [](restart # "in_flight" =>
          ~(sinceReset.success > 0 /\ sinceReset.max_attempts_reached > 0))
  /\ [][sinceReset'.max_attempts_reached > sinceReset.max_attempts_reached =>
          /\ emitted'.status = "max_attempts_reached"
          /\ state'.attempts >= maxAttempts
          /\ ~state'.allTestsPassing]_vars

\* the text was read as JSON
ReadAsJson == output.text \in {"json", "segment"}

\* the value has none of the shapes the recognizers know
Unrecognized(data) ==
  /\ data.testResults.shape = "absent" /\ data.files.shape = "absent"
  /\ data.suites.shape = "absent" /\ data.results.shape = "absent"

\* C23: parseVitestOutput returns a report with at least one file for every
\* text, and for a text that is empty, blank, without braces, unparseable or
\* of no known shape the report is one placeholder file with one failing
\* test and summary.error set.
C23_MalformedInputIsFlagged ==
  parsed.returned =>
     /\ Len(parsed.report.files) >= 1
     /\ (output.text \in BrokenTexts \/ Unrecognized(output.data)) =>
          /\ Len(parsed.report.files) = 1
          /\ Len(parsed.report.files[1].tests) = 1
          /\ ~parsed.report.files[1].tests[1].success
          /\ parsed.report.summary.error # ""

\* what the recognizers give when they are tried in their order (testResults
\* array, testResults map, files, suites, results) until one yields a file
FirstYieldingRecognizer(data) ==
  LET a == IF data.testResults.shape = "array" /\ ~ReadsNull(data.testResults.items)
           THEN MapItems("testResultsArray", data.testResults.items, PassWords) ELSE <<>>
      b == IF data.testResults.shape = "map"
           THEN MapItems("testResultsMap", data.testResults.items, PassWords) ELSE <<>>
      c == IF data.files.shape = "array"
           THEN MapItems("files", data.files.items, PassWordsOfFiles) ELSE <<>>
      d == IF data.suites.shape = "array"
           THEN MapItems("suites", data.suites.items, PassWords) ELSE <<>>
      e == IF data.results.shape = "array" THEN GroupByFile(data.results.items) ELSE <<>>
  IN IF data.testResults.shape = "array" /\ ReadsNull(data.testResults.items) THEN Threw
     ELSE IF a # <<>> THEN Returned(a)
     ELSE IF b # <<>> THEN Returned(b)
     ELSE IF c # <<>> THEN Returned(c)
     ELSE IF d # <<>> THEN Returned(d)
     ELSE IF e # <<>> THEN Returned(e)
     ELSE Returned(Placeholder)

\* C24: when some recognizer yields a file, the files of the report are
\* those of the first recognizer, in the fixed order, that yields one.
C24_FirstYieldingRecognizerWins ==
  (parsed.returned /\ ReadAsJson) =>
     LET first == FirstYieldingRecognizer(output.data)
     IN (~first.threw /\ first.files # Placeholder) => parsed.report.files = first.files

\* the words that denote a passing test
DenotesPass(status) == status \in {"pass", "passed"}

\* the status words of a shape: the files array shape says pass / fail too
Vocabulary(shape) ==
  IF shape = "files" THEN {"pass", "passed", "failed"} ELSE {"passed", "failed", "skipped"}

\* the one shape of a value that has exactly one, "" otherwise
ShapeOf(data) ==
  LET present == {sh \in {"testResults", "files", "suites", "results"} :
                    data[sh].shape # "absent"}
  IN IF Cardinality(present) = 1 THEN CHOOSE sh \in present : TRUE ELSE ""

\* the files the value lists, and for a file the status words of its tests
\* in their listed order
SourceFiles(data) ==
  LET items == data[ShapeOf(data)].items
  IN IF ShapeOf(data) = "results" THEN {items[i].file : i \in 1..Len(items)}
     ELSE {items[i].name : i \in 1..Len(items)}

SourceStatuses(data, file) ==
  LET items == data[ShapeOf(data)].items
  IN IF ShapeOf(data) = "results"
     THEN LET own == ResultsOfFile(items, file)
          IN [k \in 1..Len(own) |-> own[k].status]
     ELSE LET item == items[CHOOSE i \in 1..Len(items) : items[i].name = file]
          IN [k \in 1..Len(item.tests) |-> item.tests[k].status]

\* the tests the value lists
RECURSIVE SourceTotal(_, _)
SourceTotal(data, files) ==
  IF files = {} THEN 0
  ELSE LET f == CHOOSE g \in files : TRUE
       IN Len(SourceStatuses(data, f)) + SourceTotal(data, files \ {f})

\* the value is a well-formed instance of one schema variant: one shape, at
\* least one file and no null entry, status words of the shape's vocabulary,
\* and a top-level summary whose counters state the number of listed tests
WellFormed(out) ==
  /\ out.text \in {"json", "segment"}
  /\ ShapeOf(out.data) # ""
  /\ LET data == out.data
         items == data[ShapeOf(data)].items
     IN /\ Len(items) >= 1
        /\ ShapeOf(data) # "results" => \A i \in 1..Len(items) : ~items[i].isNull
        /\ \A f \in SourceFiles(data) :
              \A k \in 1..Len(SourceStatuses(data, f)) :
                 SourceStatuses(data, f)[k] \in Vocabulary(ShapeOf(data))
        /\ \E c \in {data.numTotalTests, data.totals, data.stats} : c.present
        /\ \A c \in {data.numTotalTests, data.totals, data.stats} :
              c.present => c.tests = SourceTotal(data, SourceFiles(data))

RECURSIVE TestsListed(_)
TestsListed(files) ==
  IF files = <<>> THEN 0 ELSE Len(Head(files).tests) + TestsListed(Tail(files))

C26_FileSuccessIsDerived ==
  parsed.returned =>
     \A i \in 1..Len(parsed.report.files) :
        parsed.report.files[i].success <=> ~HasFailingTests(parsed.report.files[i].tests)

\* C27: the totals of a report that extractSummary made are those of the
\* direct counters when they are there, else of the totals object when it is
\* there, else of the stats object when it is there, else all 0, whatever the
\* files of the report list.
C27_SummaryShapePriority ==
  (parsed.returned /\ ReadAsJson /\ parsed.report.summary.error = "") =>
     LET data == output.data
         sm == parsed.report.summary
         chosen == IF data.numTotalTests.present THEN data.numTotalTests
                   ELSE IF data.totals.present THEN data.totals
                   ELSE IF data.stats.present THEN data.stats
                   ELSE NoCounters
     IN /\ sm.total = chosen.tests /\ sm.passed = chosen.passed /\ sm.failed = chosen.failed
        /\ (~data.numTotalTests.present /\ ~data.totals.present /\ ~data.stats.present) =>
              (sm.total = 0 /\ sm.passed = 0 /\ sm.failed = 0)

C27_Witness ==
  /\ parsed.returned /\ ReadAsJson /\ parsed.report.summary.error = ""
  /\ output.data.numTotalTests.present /\ output.data.totals.present
  /\ output.data.stats.present
  /\ output.data.numTotalTests.tests = 1 /\ output.data.totals.tests = 2
  /\ parsed.report.summary.total = 1
  /\ TestsListed(parsed.report.files) = 2

\* the passing counts of the previous attempts
PassingOf(attempts) == [i \in 1..Len(attempts) |-> attempts[i].testResults.passingTests]

\* C28: the best attempt is one with the highest passingTests, and no
\* earlier attempt has as many (positions count from 1 here, the code's index
\* from 0).
C28_BestAttemptFirstOfMaxima ==
  prompt.built =>
     LET passing == PassingOf(previousAttempts)
         best == prompt.best.bestAttemptIndex + 1
     IN /\ best \in 1..Len(passing)
        /\ prompt.best.mostPassingTests = passing[best]
        /\ \A j \in 1..Len(passing) : passing[j] <= passing[best]
        /\ \A j \in 1..(best - 1) : passing[j] < passing[best]

C28_Witness ==
  /\ prompt.built
  /\ PassingOf(previousAttempts) = <<2, 5, 5, 1>>
  /\ prompt.best.bestAttemptIndex = 1

\* the occurrences of a key among the failure details of the attempts
Occurrences(attempts, key) ==
  Cardinality({<<i, j>> \in (1..Len(attempts)) \X (1..2) :
                 /\ j <= Len(attempts[i].testResults.failureDetails)
                 /\ ErrorKey(attempts[i].testResults.failureDetails[j]) = key})

\* C29: the persistent errors of n >= 1 attempts are exactly the keys
\* "name: error" that occur at least ceil(0.5 * n) times among all failure
\* details of the attempts, each listed once.
C29_PersistentErrorsQuorum ==
  prompt.built =>
     LET n == Len(previousAttempts)
         keys == {ErrorKey(f) : f \in Failures}
         listed == {prompt.persistentErrors[k] : k \in 1..Len(prompt.persistentErrors)}
     IN /\ listed = {key \in keys : /\ Occurrences(previousAttempts, key) >= 1
                                    /\ 2 * Occurrences(previousAttempts, key) >= n}
        /\ Cardinality(listed) = Len(prompt.persistentErrors)

C29_Witness ==
  /\ prompt.built
  /\ Len(previousAttempts) = 4
  /\ Occurrences(previousAttempts, <<"A", ": ", "boom">>) = 2
  /\ Occurrences(previousAttempts, <<"A", ": ", "x", ": ", "boom">>) = 1
  /\ prompt.persistentErrors = << <<"A", ": ", "boom">> >>

\* C30: of the notifications for one path that fall within one debounce
\* window (less than DebounceWait apart) at most one leads to a call of
\* onChange: two calls for the same path are caused by notifications at least
\* DebounceWait apart, and no call is made before DebounceWait has passed
\* since the notification that caused it.
C30_OneCallPerBurst ==
  /\ \A i, j \in 1..Len(delivered) :
        (i < j /\ delivered[i].changedFile = delivered[j].changedFile) =>
           notified[delivered[j].cause].at - notified[delivered[i].cause].at >= DebounceWait
  /\ \A i \in 1..Len(delivered) :
        /\ delivered[i].changedFile = notified[delivered[i].cause].changedFile
        /\ delivered[i].at >= notified[delivered[i].cause].at + DebounceWait

C30_Witness ==
  /\ Len(notified) = 3
  /\ \A k \in 1..3 : notified[k].changedFile = TestPath(1)
  /\ notified[1].kind = "change" /\ notified[2].kind = "change" /\ notified[3].kind = "add"
  /\ notified[3].at - notified[1].at < DebounceWait
  /\ timers = {}
  /\ Len(delivered) = 1
  /\ delivered[1].cause = 3

\* the step requests a generation in the call l: generateImplementation is called
GenerationRequested(l) == loops[l].pc = "readImpl" /\ loops'[l].pc = "generate"

\* the step calls applyGeneratedCode in the call l: the implementation file is written
ApplyCalled(l) == loops[l].pc = "generate" /\ loops'[l].pc = "apply"

\* C31: once a test run that reported success has set allTestsPassing, no
\* generation is requested and applyGeneratedCode writes no implementation
\* file until a test-file change event resets the session, in every
\* interleaving, also for a runLoop call that was inside its per-file steps
\* when another call observed the success.
C31_NoWorkWhileSucceeded ==
  [][state.allTestsPassing =>
        \A l \in Loops : ~GenerationRequested(l) /\ ~ApplyCalled(l)]_vars

\* The same in the cycles that begin while no runLoop call is in flight.
NoWorkWhileSucceededSequential ==
  [][(state.allTestsPassing /\ restart # "in_flight") =>
        \A l \in Loops : ~GenerationRequested(l) /\ ~ApplyCalled(l)]_vars

\* C32: in every reachable state 0 <= attempts <= maxAttempts, and the test
\* executions started since the attempt counter was last reset (the event's
\* own first one included) never exceed maxAttempts: every start of a test
\* execution counts once, in every interleaving of change events, stop
\* requests and steps of the runLoop calls.
C32_AttemptsWithinBudget ==
  /\ [](/\ state.attempts \in 0..maxAttempts
        /\ sinceReset.running_tests = state.attempts
        /\ sinceReset.running_tests <= maxAttempts)
  /\ [][\A l \in Loops :
          TestsStarted(l) =>
             /\ state'.attempts = (IF Restarted(l) THEN 1 ELSE state.attempts + 1)
             /\ sinceReset'.running_tests =
                  (IF Restarted(l) THEN 1 ELSE sinceReset.running_tests + 1)]_vars

C32_Witness ==
  /\ restart = "in_flight"
  /\ maxAttempts = 2 /\ state.attempts = 2 /\ sinceReset.running_tests = 2
  /\ \A l \in Loops : loops[l].pc = "runTests"

\* the report holds no failing test and no summary.error
Clean(report) ==
  /\ report.summary.error = ""
  /\ \A i \in 1..Len(report.files) :
        \A k \in 1..Len(report.files[i].tests) : report.files[i].tests[k].success

\* C33: a step sets allTestsPassing and emits 'success' only for a test run
\* whose report holds no failing test and no summary.error: a run with exit
\* code 0 whose output is normalized to a placeholder or error report, or to
\* a report with a failing test, does not lead to Succeeded.
C33_SuccessOnlyForCleanReport ==
  [][(sinceReset'.success > sinceReset.success \/ (state'.allTestsPassing /\ ~state.allTestsPassing))
        => (parsed.returned /\ Clean(parsed.report))]_vars

\* the path ends in .test.js or .test.ts
EndsInTestSuffix(p) ==
  Len(p) >= 3 /\ SubSeq(p, Len(p) - 1, Len(p)) \in {<<"test", "js">>, <<"test", "ts">>}

\* C34: a change event for a watched path that does not end in .test.js or
\* .test.ts, such as an implementation file the loop has just written, leaves
\* attempts, allTestsPassing and history as they are and starts no runLoop
\* call; the implementation files the watcher watches are such paths.
C34_OtherFilesChangeNothing ==
  /\ [](\A p \in ImplPaths : ~EndsInTestSuffix(p))
  /\ [][\A changedFile \in WatchedPaths :
          (~EndsInTestSuffix(changedFile) /\ OnChange(changedFile)) =>
             /\ state'.attempts = state.attempts
             /\ state'.allTestsPassing = state.allTestsPassing
             /\ state'.history = state.history
             /\ loops' = loops
             /\ sinceReset' = sinceReset]_vars

C34_Witness ==
  /\ restart = "none" /\ phase = "looping"
  /\ loops[1].pc = "settleDelay"
  /\ emitted = NoUpdate
  /\ Len(state.history) = 1
  /\ state.history[1].fileUpdated \in ImplPaths

\* stop() has completed and no runLoop call is suspended at an await
StoppedAndIdle == ~state.running /\ ~watcherOpen /\ InFlight = {}

\* C35: once stop() has completed and the iterations in flight have
\* finished, attempts, allTestsPassing and history are not modified any more
\* and no test execution, generation or file write is started, also when a
\* change notification was waiting in the debounce timer as the watcher was
\* closed.
C35_QuietAfterStop ==
  [][StoppedAndIdle =>
        /\ state'.attempts = state.attempts
        /\ state'.allTestsPassing = state.allTestsPassing
        /\ state'.history = state.history
        /\ \A l \in Loops : ~TestsStarted(l) /\ ~GenerationRequested(l) /\ ~ApplyCalled(l)]_vars

\* C36: between two consecutive resets of the session 'max_attempts_reached'
\* is emitted at most once, in every interleaving of change events with the
\* steps of the runLoop calls.
C36_MaxAttemptsReachedOnce == sinceReset.max_attempts_reached <= 1

\* The same in the cycles that begin while no runLoop call is in flight.
MaxAttemptsReachedOnceSequential ==
  restart # "in_flight" => sinceReset.max_attempts_reached <= 1

\* the session rests: no runLoop call is in flight, and all tests pass, or
\* the attempts are used up, or the session was stopped
AtRest ==
  /\ phase # "init"
  /\ InFlight = {}
  /\ state.allTestsPassing \/ state.attempts = maxAttempts \/ ~state.running

C38_OverrideIsPerFile ==
  \A q \in TestPaths : IsValidationOverridden(q) <=> q \in overrides

\* the half of it that says an override reaches no file it was not set for
OverrideReachesNoOtherFile ==
  \A q \in TestPaths : IsValidationOverridden(q) => q \in overrides

\* the change handler passed notification n, a change of test file p, on to
\* debouncedOnChange, early enough for the wait to end while the clock runs
ChangePassedOn(n, p) ==
  /\ timeout # NoTimeout
  /\ timeout.cause = n
  /\ timeout.changedFile = p
  /\ timeout.at <= MaxTime
  /\ notified[n].kind = "change"

\* onChange was called with path p for notification n or a later one
DeliveredSince(n, p) ==
  \E i \in 1..Len(delivered) : delivered[i].changedFile = p /\ delivered[i].cause >= n

\* a timer is set that is due after the clock has stopped
DueAfterTheClock == \E timer \in timers : timer.at > MaxTime

\* C39: every change of a test file that the change handler passes on is
\* eventually delivered to onChange with that file's path, whatever
\* notifications for other paths arrive within the debounce window (the
\* timers that are due after the clock has stopped are left out).
C39_EveryChangeDelivered ==
  \A n \in 1..MaxNotifications, p \in TestPaths :
     ChangePassedOn(n, p) ~> (DeliveredSince(n, p) \/ DueAfterTheClock)

\* a change that was passed on is delivered when no notification for another
\* path follows it
DeliveredUnlessAnotherPathFollows ==
  \A n \in 1..MaxNotifications, p \in TestPaths :
     ChangePassedOn(n, p) ~>
        \/ DeliveredSince(n, p)
        \/ DueAfterTheClock
        \/ \E m \in (n + 1)..Len(notified) : notified[m].changedFile # p

====
